---- MODULE Spec2Model ----
(***************************************************************************)
(* fs-tree-diff: the Tree Container (FSTree) with its change tracking and  *)
(* lifecycle, and the patch calculator (FSTree.prototype.calculatePatch).  *)
(*                                                                         *)
(* Strings that the code compares with < and > (relativePath) are          *)
(* sequences of UTF-16 code units; Entry objects live in a heap so that    *)
(* the in-place write of entry.checksum reaches every reference.           *)
(***************************************************************************)
EXTENDS Integers, Sequences, FiniteSets, TLC

VARIABLES
    heap,                   \* the Entry objects allocated so far, by id 1..Len(heap)
    entries,                \* this.entries: sequence of Entry ids
    _changes,               \* this._changes: sequence of <<operation, relativePath, entry id>>
    _relativePathToChange,  \* this._relativePathToChange: relativePath -> 0-based index
    _state,                 \* this._state
    call,                   \* the last public call: [op, path]
    outcome,                \* how it ended: [type, operation]
    ret,                    \* the Entry id it returned (0: null / undefined)
    io,                     \* the fs calls it made, in order
    stopCalled,             \* history: stop() has been called on this instance
    touched,                \* history: paths tracked since the last start(), by first touch
    latest,                 \* history: path -> <<operation, entry id>> of its last _track
    ours,                   \* calculatePatch: this.entries (Entry values)
    theirs,                 \* calculatePatch: otherFSTree.entries (Entry values)
    isEqualArg,             \* calculatePatch: the second argument
    patch,                  \* calculatePatch: what it returned
    patchOutcome            \* calculatePatch: "pending", "returned" or "TypeError"

containerVars == <<heap, entries, _changes, _relativePathToChange, _state,
                   call, outcome, ret, io, stopCalled, touched, latest>>
patchVars == <<ours, theirs, isEqualArg, patch, patchOutcome>>
vars == <<containerVars, patchVars>>

----------------------------------------------------------------------------
(* Bounds of the model *)

\* entries a container is constructed with
MaxInit == 2
\* Entry objects that may exist in the heap (initial ones and those writeFileSync makes)
MaxHeap == 4
\* length of the entry sequences given to calculatePatch
MaxEntries == 3

----------------------------------------------------------------------------
(* Strings *)

SLASH == 47

\* a < b for JavaScript strings: lexicographic by code unit, a proper prefix is smaller
RECURSIVE StrLess(_, _)
StrLess(a, b) ==
    IF b = <<>> THEN FALSE
    ELSE IF a = <<>> THEN TRUE
    ELSE IF Head(a) # Head(b) THEN Head(a) < Head(b)
    ELSE StrLess(Tail(a), Tail(b))

StrGreater(a, b) == StrLess(b, a)

\* the paths of the model: "a" "a." "a/" "a/b" "a/b/" "a/b/c" (ascending)
Paths ==
    { <<97>>, <<97, 46>>, <<97, 47>>, <<97, 47, 98>>, <<97, 47, 98, 47>>,
      <<97, 47, 98, 47, 99>> }

\* the paths a container is constructed with: "a" "a/" "a/b"
InitPaths == { <<97>>, <<97, 47>>, <<97, 47, 98>> }

\* the paths container calls are made with: "a/" "a/b"
CallPaths == { <<97, 47>>, <<97, 47, 98>> }

\* file contents written: "" and "x"
Contents == { <<>>, <<120>> }

\* values Date.now() returns
Times == { 1 }

----------------------------------------------------------------------------
(* Entry *)

DIRECTORY_MODE == 16877

ARBITRARY_START_OF_TIME == 0

\* entry.checksum left undefined
NoChecksum == <<>>

\* md5hex(s): a digest, distinct for distinct strings and never falsy
md5hex(s) == <<"md5", s>>

\* a number as mtime
Num(n) == [date |-> FALSE, ms |-> n]

\* +mtime
ToNumber(m) == m.ms

Entry(relativePath, size, mtime, checksum) ==
    LET isDirectory ==
            /\ Len(relativePath) > 0
            /\ relativePath[Len(relativePath)] = SLASH
    IN  [ relativePath |-> relativePath,
          mode |-> IF isDirectory THEN DIRECTORY_MODE ELSE 0,
          size |-> size,
          mtime |-> mtime,
          checksum |-> checksum ]

\* (entry.mode & 61440) === 16384
isDirectory(entry) == ((entry.mode \div 4096) % 16) * 4096 = 16384

isFile(entry) == ~isDirectory(entry)

----------------------------------------------------------------------------
(* Tree Container *)

STARTED == "started"

STOPPED == "stopped"

\* the entries a container is constructed from: fromPaths gives size 0, mtime
\* ARBITRARY_START_OF_TIME and no checksum; fromEntries may carry a checksum
InitEntries ==
    { Entry(p, 0, Num(ARBITRARY_START_OF_TIME), c) :
        p \in InitPaths, c \in {NoChecksum, md5hex(<<>>)} }

\* validateSortedUnique(entries): strictly ascending by relativePath
validateSortedUnique(es) ==
    \A i \in 1..(Len(es) - 1) : StrLess(es[i].relativePath, es[i + 1].relativePath)

SortedSeqs(S, n) ==
    { es \in UNION { [1..k -> S] : k \in 0..n } : validateSortedUnique(es) }

Min(S) == CHOOSE x \in S : \A y \in S : x <= y

\* result of findByRelativePath: entry id (0 for null) and 0-based index (-1 when absent)
findByRelativePath(relativePath) ==
    LET hits == { i \in 1..Len(entries) : heap[entries[i]].relativePath = relativePath }
    IN  IF hits = {}
        THEN [entry |-> 0, index |-> -1]
        ELSE [entry |-> entries[Min(hits)], index |-> Min(hits) - 1]

\* _throwIfStopped with the test the wrong way round
_throwIfStopped_Inverted(operation) == _state # STOPPED

\* _throwIfStopped that never throws
_throwIfStopped_Never(operation) == FALSE

\* whether _throwIfStopped(operation) throws
_throwIfStopped(operation) == _state = STOPPED

\* _track that appends a record whether or not the path has one
_track_AlwaysAppend(operation, entry, hp) ==
    << Append(_changes, <<operation, hp[entry].relativePath, entry>>),
       [ p \in DOMAIN _relativePathToChange \cup {hp[entry].relativePath} |->
           IF p = hp[entry].relativePath THEN Len(_changes)
           ELSE _relativePathToChange[p] ] >>

\* _track(operation, entry): the new <<_changes, _relativePathToChange>>;
\* hp is the heap the entry is read from
_track(operation, entry, hp) ==
    LET relativePath == hp[entry].relativePath
    IN  IF relativePath \notin DOMAIN _relativePathToChange
        THEN \* new, so append
             << Append(_changes, <<operation, relativePath, entry>>),
                _relativePathToChange @@ (relativePath :> Len(_changes)) >>
        ELSE \* existing, so replace
             LET position == _relativePathToChange[relativePath]
             IN  << [_changes EXCEPT ![position + 1] = <<operation, @[2], entry>>],
                    _relativePathToChange >>

\* _insertAt that always pushes the entry, also when the path has a position
_insertAt_AlwaysPush(result, entry, hp) == Append(entries, entry)

\* _insertAt(result, entry): the new this.entries
_insertAt(result, entry, hp) ==
    IF result.index > -1
    THEN [entries EXCEPT ![result.index + 1] = entry]
    ELSE LET path == hp[entry].relativePath
             found == { position \in 1..Len(entries) :
                          \/ hp[entries[position]].relativePath = path
                          \/ StrLess(hp[entries[position]].relativePath, path) }
         IN  IF found = {}
             THEN Append(entries, entry)
             ELSE LET position == Min(found)
                  IN  IF hp[entries[position]].relativePath = path
                      THEN [entries EXCEPT ![position] = entry]
                      ELSE SubSeq(entries, 1, position - 1) \o <<entry>>
                             \o SubSeq(entries, position, Len(entries))

\* history of _track calls since the last start()
Touch(operation, relativePath, entry) ==
    /\ touched' = IF \E k \in 1..Len(touched) : touched[k] = relativePath
                  THEN touched
                  ELSE Append(touched, relativePath)
    /\ latest' = [ p \in DOMAIN latest \cup {relativePath} |->
                     IF p = relativePath THEN <<operation, entry>> ELSE latest[p] ]

\* the call ends by throwing, after the fs calls done, with the container as it was
Throws(type, operation, done) ==
    /\ outcome' = [type |-> type, operation |-> operation]
    /\ ret' = 0
    /\ io' = done
    /\ UNCHANGED <<entries, _changes, _relativePathToChange, _state, touched, latest>>

Returns(value, done) ==
    /\ outcome' = [type |-> "returned", operation |-> ""]
    /\ ret' = value
    /\ io' = done

\* the body shared by unlinkSync, rmdirSync and mkdirSync after _throwIfStopped:
\* find the entry, call fs, _track the entry found, _insertAt it
TrackFound(operation, fsCall, relativePath) ==
    LET result == findByRelativePath(relativePath)
        entry == result.entry
    IN  \E fsOk \in BOOLEAN :
          IF ~fsOk
          THEN Throws("IOError", fsCall, <<fsCall>>)
          ELSE IF entry = 0
          THEN \* _track reads entry.relativePath of null
               Throws("TypeError", "_track", <<fsCall>>)
          ELSE /\ _changes' = _track(operation, entry, heap)[1]
               /\ _relativePathToChange' = _track(operation, entry, heap)[2]
               /\ entries' = _insertAt(result, entry, heap)
               /\ Touch(operation, relativePath, entry)
               /\ Returns(0, <<fsCall>>)
               /\ UNCHANGED _state

start ==
    /\ _changes' = <<>>
    /\ _relativePathToChange' = <<>>
    /\ _state' = STARTED
    /\ touched' = <<>>
    /\ latest' = <<>>
    /\ call' = [op |-> "start", path |-> <<>>]
    /\ Returns(0, <<>>)
    /\ UNCHANGED <<heap, entries, stopCalled, patchVars>>

stop ==
    /\ _state' = STOPPED
    /\ stopCalled' = TRUE
    /\ call' = [op |-> "stop", path |-> <<>>]
    /\ Returns(0, <<>>)
    /\ UNCHANGED <<heap, entries, _changes, _relativePathToChange, touched, latest,
                   patchVars>>

statSync(relativePath) ==
    /\ call' = [op |-> "statSync", path |-> relativePath]
    /\ Returns(findByRelativePath(relativePath).entry, <<>>)
    /\ UNCHANGED <<heap, entries, _changes, _relativePathToChange, _state,
                   stopCalled, touched, latest, patchVars>>

unlinkSync(relativePath) ==
    /\ call' = [op |-> "unlinkSync", path |-> relativePath]
    /\ IF _throwIfStopped("unlink")
       THEN Throws("Error", "unlink", <<>>)
       ELSE TrackFound("unlink", "unlinkSync", relativePath)
    /\ UNCHANGED <<heap, stopCalled, patchVars>>

rmdirSync(relativePath) ==
    /\ call' = [op |-> "rmdirSync", path |-> relativePath]
    /\ IF _throwIfStopped("rmdir")
       THEN Throws("Error", "rmdir", <<>>)
       ELSE TrackFound("rmdir", "rmdirSync", relativePath)
    /\ UNCHANGED <<heap, stopCalled, patchVars>>

mkdirSync(relativePath) ==
    /\ call' = [op |-> "mkdirSync", path |-> relativePath]
    /\ IF _throwIfStopped("mkdir")
       THEN Throws("Error", "mkdir", <<>>)
       ELSE TrackFound("mkdir", "mkdirSync", relativePath)
    /\ UNCHANGED <<heap, stopCalled, patchVars>>

\* the lazy load done for every entry, whether or not it has a checksum
LacksChecksum_Always(entry) == TRUE

\* !entry.checksum
LacksChecksum(entry) == entry.checksum = NoChecksum

\* the written content never taken for unchanged
ChecksumUnchanged_Never(entry, checksum) == FALSE

\* entry.checksum === checksum
ChecksumUnchanged(entry, checksum) == entry.checksum = checksum

\* fs.writeFileSync cannot write to a path that ends in a separator
CanWrite(relativePath) ==
    IF Len(relativePath) > 0 /\ relativePath[Len(relativePath)] = SLASH
    THEN {FALSE}
    ELSE BOOLEAN

\* writeFileSync after the lazy load of entry.checksum: hp is the heap, done the
\* fs calls so far
WriteLoaded(relativePath, content, hp, done) ==
    LET result == findByRelativePath(relativePath)
        checksum == md5hex(content)
    IN  IF result.entry # 0 /\ ChecksumUnchanged(hp[result.entry], checksum)
        THEN \* do nothin
             /\ heap' = hp
             /\ Returns(0, done)
             /\ UNCHANGED <<entries, _changes, _relativePathToChange, _state,
                            touched, latest>>
        ELSE \E fsOk \in CanWrite(relativePath) :
               IF ~fsOk
               THEN /\ heap' = hp
                    /\ Throws("IOError", "writeFileSync", Append(done, "writeFileSync"))
               ELSE \E now \in Times :
                      LET entry == Len(hp) + 1
                          operation == IF result.entry # 0 THEN "change" ELSE "create"
                          hp2 == Append(hp, Entry(relativePath, Len(content), Num(now),
                                                  checksum))
                      IN  /\ Len(hp) < MaxHeap
                          /\ heap' = hp2
                          /\ _changes' = _track(operation, entry, hp2)[1]
                          /\ _relativePathToChange' = _track(operation, entry, hp2)[2]
                          /\ entries' = _insertAt(result, entry, hp2)
                          /\ Touch(operation, relativePath, entry)
                          /\ Returns(0, Append(done, "writeFileSync"))
                          /\ UNCHANGED _state

writeFileSync(relativePath, content) ==
    /\ call' = [op |-> "writeFileSync", path |-> relativePath]
    /\ IF _throwIfStopped("writeFile")
       THEN /\ Throws("Error", "writeFile", <<>>)
            /\ UNCHANGED heap
       ELSE LET entry == findByRelativePath(relativePath).entry
            IN  IF entry # 0 /\ LacksChecksum(heap[entry])
                THEN \* lazily load checksum
                     \E fsOk \in BOOLEAN :
                       IF ~fsOk
                       THEN /\ Throws("IOError", "readFileSync", <<"readFileSync">>)
                            /\ UNCHANGED heap
                       ELSE \E disk \in Contents :
                              WriteLoaded(relativePath, content,
                                          [heap EXCEPT ![entry].checksum = md5hex(disk)],
                                          <<"readFileSync">>)
                ELSE WriteLoaded(relativePath, content, heap, <<>>)
    /\ UNCHANGED <<stopCalled, patchVars>>

\* new FSTree({entries: es}): validateSortedUnique(es), then this.start()
Init ==
    /\ \E es \in SortedSeqs(InitEntries, MaxInit) :
         /\ heap = es
         /\ entries = [i \in 1..Len(es) |-> i]
    /\ _changes = <<>>
    /\ _relativePathToChange = <<>>
    /\ _state = STARTED
    /\ call = [op |-> "new", path |-> <<>>]
    /\ outcome = [type |-> "returned", operation |-> ""]
    /\ ret = 0
    /\ io = <<>>
    /\ stopCalled = FALSE
    /\ touched = <<>>
    /\ latest = <<>>
    /\ ours = <<>>
    /\ theirs = <<>>
    /\ isEqualArg = "absent"
    /\ patch = <<>>
    /\ patchOutcome = "pending"

Next ==
    \/ start
    \/ stop
    \/ \E p \in CallPaths : statSync(p)
    \/ \E p \in CallPaths : unlinkSync(p)
    \/ \E p \in CallPaths : rmdirSync(p)
    \/ \E p \in CallPaths : mkdirSync(p)
    \/ \E p \in CallPaths, content \in Contents : writeFileSync(p, content)

Spec == Init /\ [][Next]_vars

----------------------------------------------------------------------------
(* Patch Calculator *)

addCommand(entry) ==
    <<IF isDirectory(entry) THEN "mkdir" ELSE "create", entry.relativePath, entry>>

removeCommand(entry) ==
    <<IF isDirectory(entry) THEN "rmdir" ELSE "unlink", entry.relativePath, entry>>

updateCommand(entry) == <<"change", entry.relativePath, entry>>

\* defaultIsEqual that returns nothing (falsy) for entries that are not both directories
defaultIsEqual_NoReturn(entryA, entryB) == isDirectory(entryA) /\ isDirectory(entryB)

\* defaultIsEqual that compares mtime without the numeric coercion
defaultIsEqual_NoCoercion(entryA, entryB) ==
    IF isDirectory(entryA) /\ isDirectory(entryB)
    THEN TRUE
    ELSE /\ entryA.size = entryB.size
         /\ entryA.mtime = entryB.mtime
         /\ entryA.mode = entryB.mode

defaultIsEqual(entryA, entryB) ==
    IF isDirectory(entryA) /\ isDirectory(entryB)
    THEN \* ignore directory changes by default
         TRUE
    ELSE /\ entryA.size = entryB.size
         /\ ToNumber(entryA.mtime) = ToNumber(entryB.mtime)
         /\ entryA.mode = entryB.mode

\* a caller's predicate that compares the metadata of directories too
strictIsEqual(entryA, entryB) ==
    /\ entryA.size = entryB.size
    /\ ToNumber(entryA.mtime) = ToNumber(entryB.mtime)
    /\ entryA.mode = entryB.mode

\* the second argument of calculatePatch: left out, a function, or something else
IsEqualArgs == {"absent", "strictIsEqual", "notAFunction"}

\* calculatePatch without the check of its second argument
ThrowsTypeError_Never(isEqual) == FALSE

\* arguments.length > 1 && typeof isEqual !== 'function'
ThrowsTypeError(isEqual) == isEqual = "notAFunction"

\* isEqual(x, y) once the default has been filled in
CallIsEqual(isEqual, x, y) ==
    IF isEqual = "strictIsEqual" THEN strictIsEqual(x, y) ELSE defaultIsEqual(x, y)

Reverse(s) == [k \in 1..Len(s) |-> s[Len(s) + 1 - k]]

\* calculatePatch without the cleanup of ours
CleanupOurs_Dropped(os, i) == <<>>

\* cleanup ours: what the loop pushes on removals from ours[i] on
CleanupOurs(os, i) == [k \in 1..(Len(os) + 1 - i) |-> removeCommand(os[i + k - 1])]

\* the cleanup of theirs run from the last entry down
CleanupTheirs_Backwards(ts, j) ==
    [k \in 1..(Len(ts) + 1 - j) |-> addCommand(ts[Len(ts) + 1 - k])]

\* calculatePatch without the cleanup of theirs
CleanupTheirs_Dropped(ts, j) == <<>>

\* cleanup theirs: what the loop pushes on operations from theirs[j] on
CleanupTheirs(ts, j) == [k \in 1..(Len(ts) + 1 - j) |-> addCommand(ts[j + k - 1])]

\* operations.concat(removals), the reversal left out
Concat_NoReverse(operations, removals) == operations \o removals

\* operations.concat(removals.reverse())
Concat(operations, removals) == operations \o Reverse(removals)

\* every removal deferred, file removals too
PushRemoval_AllDeferred(x, operations, removals) ==
    <<operations, Append(removals, removeCommand(x))>>

\* ours only: the state <<operations, removals>> after the removal command of x
PushRemoval(x, operations, removals) ==
    IF isDirectory(x)
    THEN <<operations, Append(removals, removeCommand(x))>>
    ELSE \* pre-cleanup file removals should occur in-order
         <<Append(operations, removeCommand(x)), removals>>

\* every update pushed on operations, directory updates too
PushUpdate_Forward(x, y, operations, removals) ==
    <<Append(operations, updateCommand(y)), removals>>

\* same path, not equal: the state <<operations, removals>> after the update command
PushUpdate(x, y, operations, removals) ==
    IF isDirectory(x)
    THEN <<operations, Append(removals, updateCommand(y))>>
    ELSE <<Append(operations, updateCommand(y)), removals>>

\* the while loop and what follows it; i and j are the code's i + 1 and j + 1
RECURSIVE Merge(_, _, _, _, _, _, _)
Merge(os, ts, isEqual, i, j, operations, removals) ==
    IF i <= Len(os) /\ j <= Len(ts)
    THEN LET x == os[i]
             y == ts[j]
         IN  IF StrLess(x.relativePath, y.relativePath)
             THEN LET next == PushRemoval(x, operations, removals)
                  IN  Merge(os, ts, isEqual, i + 1, j, next[1], next[2])
             ELSE IF StrGreater(x.relativePath, y.relativePath)
             THEN Merge(os, ts, isEqual, i, j + 1, Append(operations, addCommand(y)),
                        removals)
             ELSE IF ~CallIsEqual(isEqual, x, y)
             THEN LET next == PushUpdate(x, y, operations, removals)
                  IN  Merge(os, ts, isEqual, i + 1, j + 1, next[1], next[2])
             ELSE Merge(os, ts, isEqual, i + 1, j + 1, operations, removals)
    ELSE Concat(operations \o CleanupTheirs(ts, j), removals \o CleanupOurs(os, i))

\* the commands calculatePatch returns when it does not throw
calculatePatch(os, ts, isEqual) == Merge(os, ts, isEqual, 1, 1, <<>>, <<>>)

\* the entries of ours: Entry(path, size, ARBITRARY_START_OF_TIME)
OursEntries ==
    { Entry(p, size, Num(ARBITRARY_START_OF_TIME), NoChecksum) :
        p \in Paths, size \in {0, 1} }

\* the entries of theirs
TheirsEntries ==
    { Entry(p, 0, Num(ARBITRARY_START_OF_TIME), NoChecksum) : p \in Paths }

\* ours.calculatePatch(theirs, isEqualArg)
CalculatePatch ==
    /\ patchOutcome = "pending"
    /\ IF ThrowsTypeError(isEqualArg)
       THEN /\ patchOutcome' = "TypeError"
            /\ patch' = <<>>
       ELSE /\ patchOutcome' = "returned"
            /\ patch' = calculatePatch(ours, theirs, isEqualArg)
    /\ UNCHANGED <<ours, theirs, isEqualArg, containerVars>>

\* two containers constructed from sorted, duplicate-free entries
PatchInit ==
    /\ ours \in SortedSeqs(OursEntries, MaxEntries)
    /\ theirs \in SortedSeqs(TheirsEntries, MaxEntries) \cup {ours}
    /\ isEqualArg \in IsEqualArgs
    /\ patch = <<>>
    /\ patchOutcome = "pending"
    /\ heap = <<>>
    /\ entries = <<>>
    /\ _changes = <<>>
    /\ _relativePathToChange = <<>>
    /\ _state = STARTED
    /\ call = [op |-> "new", path |-> <<>>]
    /\ outcome = [type |-> "returned", operation |-> ""]
    /\ ret = 0
    /\ io = <<>>
    /\ stopCalled = FALSE
    /\ touched = <<>>
    /\ latest = <<>>

PatchNext == CalculatePatch

PatchSpec == PatchInit /\ [][PatchNext]_vars

----------------------------------------------------------------------------
(* The default equality predicate on entries whose metadata was read from disk *)

\* entries of each tree in this development
MaxEqual == 2

\* a Date as mtime
Date(n) == [date |-> TRUE, ms |-> n]

\* entry.mode assigned after construction (mode and path suffix are independent fields)
WithMode(entry, mode) == [entry EXCEPT !.mode = mode]

\* "a/" and "a/b", each with size 0 or 1, mtime 0, new Date(0) or 1, and the mode of
\* the constructor (0), of a regular file (0100644) or of a directory (040755, 040777)
EqualityEntries ==
    { WithMode(Entry(p, size, mtime, NoChecksum), mode) :
        p \in { <<97, 47>>, <<97, 47, 98>> },
        size \in {0, 1},
        mtime \in {Num(0), Date(0), Num(1)},
        mode \in {0, 33188, DIRECTORY_MODE, 16895} }

EqualityInit ==
    /\ ours \in SortedSeqs(EqualityEntries, MaxEqual)
    /\ theirs \in SortedSeqs(EqualityEntries, MaxEqual)
    /\ isEqualArg = "absent"
    /\ patch = <<>>
    /\ patchOutcome = "pending"
    /\ heap = <<>>
    /\ entries = <<>>
    /\ _changes = <<>>
    /\ _relativePathToChange = <<>>
    /\ _state = STARTED
    /\ call = [op |-> "new", path |-> <<>>]
    /\ outcome = [type |-> "returned", operation |-> ""]
    /\ ret = 0
    /\ io = <<>>
    /\ stopCalled = FALSE
    /\ touched = <<>>
    /\ latest = <<>>

EqualityNext == CalculatePatch

EqualitySpec == EqualityInit /\ [][EqualityNext]_vars

----------------------------------------------------------------------------
(* Properties of the patch calculator (checked under PatchSpec) *)

IsProperPrefix(d, p) == Len(d) < Len(p) /\ SubSeq(p, 1, Len(d)) = d

PathsOf(es) == { es[k].relativePath : k \in 1..Len(es) }

HasPath(es, p) == p \in PathsOf(es)

EntryAt(es, p) == es[CHOOSE k \in 1..Len(es) : es[k].relativePath = p]

Kinds(cmds) == { cmds[k][1] : k \in 1..Len(cmds) }

\* a path -> entry state holding exactly the entries es
StateOf(es) == [p \in PathsOf(es) |-> EntryAt(es, p)]

\* one command applied to a path -> entry state
ApplyCommand(st, cmd) ==
    IF cmd[1] \in {"unlink", "rmdir"}
    THEN [p \in DOMAIN st \ {cmd[2]} |-> st[p]]
    ELSE IF cmd[1] \in {"create", "mkdir"}
    THEN [p \in DOMAIN st \cup {cmd[2]} |-> IF p = cmd[2] THEN cmd[3] ELSE st[p]]
    ELSE [p \in DOMAIN st |-> IF p = cmd[2] THEN cmd[3] ELSE st[p]]

\* the commands applied in order
RECURSIVE ApplyPatch(_, _)
ApplyPatch(st, cmds) ==
    IF cmds = <<>> THEN st ELSE ApplyPatch(ApplyCommand(st, Head(cmds)), Tail(cmds))

\* C2: with the default equality predicate, the commands of ours.calculatePatch(theirs)
\* applied in order to a path -> entry state equal to ours give a state with exactly
\* the paths of theirs, each holding theirs' entry or one the predicate reports equal
PatchTransformsOursIntoTheirs ==
    (patchOutcome = "returned" /\ isEqualArg = "absent") =>
        LET final == ApplyPatch(StateOf(ours), patch)
        IN  /\ DOMAIN final = PathsOf(theirs)
            /\ \A k \in 1..Len(theirs) :
                 \/ final[theirs[k].relativePath] = theirs[k]
                 \/ defaultIsEqual(final[theirs[k].relativePath], theirs[k])

\* C2 witness: a patch that removes, adds and changes, and leaves in place an entry
\* that is equal to theirs' by the predicate only
PatchTransformsWitness ==
    /\ patchOutcome = "returned"
    /\ isEqualArg = "absent"
    /\ {"change", "unlink", "mkdir"} \subseteq Kinds(patch)
    /\ \E k \in 1..Len(theirs) :
         ApplyPatch(StateOf(ours), patch)[theirs[k].relativePath] # theirs[k]

\* C3: for every rmdir command, each unlink or rmdir command whose path has the
\* rmdir's path as a proper prefix comes earlier in the output
DescendantRemovalsBeforeRmdir ==
    patchOutcome = "returned" =>
        \A d, k \in 1..Len(patch) :
            ( /\ patch[d][1] = "rmdir"
              /\ patch[k][1] \in {"unlink", "rmdir"}
              /\ IsProperPrefix(patch[d][2], patch[k][2]) ) => k < d

\* C3 witness: a directory removed together with a file and a directory below it
DescendantRemovalsWitness ==
    /\ patchOutcome = "returned"
    /\ \E d, k, m \in 1..Len(patch) :
         /\ patch[d][1] = "rmdir"
         /\ patch[k][1] = "unlink"
         /\ patch[m][1] = "rmdir"
         /\ IsProperPrefix(patch[d][2], patch[k][2])
         /\ IsProperPrefix(patch[d][2], patch[m][2])

\* ours has a file at p, theirs has the directory p/ and nothing at p
FileBecomesDirectory(p) ==
    /\ HasPath(ours, p)
    /\ isFile(EntryAt(ours, p))
    /\ HasPath(theirs, Append(p, SLASH))
    /\ ~HasPath(theirs, p)

\* C4: when a file p of ours is replaced in theirs by the directory p/, the unlink of
\* p comes before the mkdir of p/ and before every create or mkdir below p/
FileToDirectoryUnlinksFirst ==
    patchOutcome = "returned" =>
        \A p \in Paths :
            FileBecomesDirectory(p) =>
                \E u \in 1..Len(patch) :
                    /\ patch[u][1] = "unlink"
                    /\ patch[u][2] = p
                    /\ \A k \in 1..Len(patch) :
                         ( /\ patch[k][1] \in {"create", "mkdir"}
                           /\ \/ patch[k][2] = Append(p, SLASH)
                              \/ IsProperPrefix(Append(p, SLASH), patch[k][2]) )
                         => u < k

\* C4 witness: a file replaced by a directory that is made and filled
FileToDirectoryWitness ==
    /\ patchOutcome = "returned"
    /\ \E p \in Paths :
         /\ FileBecomesDirectory(p)
         /\ \E k, m \in 1..Len(patch) :
              /\ patch[k] = addCommand(EntryAt(theirs, Append(p, SLASH)))
              /\ patch[k][1] = "mkdir"
              /\ patch[m][1] = "create"
              /\ IsProperPrefix(Append(p, SLASH), patch[m][2])

\* C5 (as claimed): when a directory p/ of ours is replaced in theirs by the file p,
\* the rmdir of p/ and the removals below p/ come before the create of p
DirectoryToFileRemovesFirst ==
    patchOutcome = "returned" =>
        \A p \in Paths :
            ( /\ HasPath(ours, Append(p, SLASH))
              /\ isDirectory(EntryAt(ours, Append(p, SLASH)))
              /\ HasPath(theirs, p)
              /\ isFile(EntryAt(theirs, p))
              /\ ~HasPath(theirs, Append(p, SLASH)) )
            => \A c, r \in 1..Len(patch) :
                 ( /\ patch[c][1] = "create"
                   /\ patch[c][2] = p
                   /\ patch[r][1] \in {"unlink", "rmdir"}
                   /\ \/ patch[r][2] = Append(p, SLASH)
                      \/ IsProperPrefix(Append(p, SLASH), patch[r][2]) )
                 => r < c

\* C6: with the default equality predicate, A.calculatePatch(A) is empty
SelfPatchIsEmpty ==
    (patchOutcome = "returned" /\ isEqualArg = "absent" /\ theirs = ours) =>
        patch = <<>>

\* C6 witness: a tree of files and directories, some of size 1, diffed against itself
SelfPatchWitness ==
    /\ patchOutcome = "returned"
    /\ isEqualArg = "absent"
    /\ theirs = ours
    /\ Len(ours) = MaxEntries
    /\ \E k, m \in 1..Len(ours) :
         /\ isFile(ours[k])
         /\ ours[k].size = 1
         /\ isDirectory(ours[m])

----------------------------------------------------------------------------
(* Properties of the Tree Container (checked under Spec) *)

Mutators == {"writeFileSync", "mkdirSync", "unlinkSync", "rmdirSync"}

\* the operation a mutator names in the error of a stopped container
OperationName(op) ==
    CASE op = "writeFileSync" -> "writeFile"
      [] op = "mkdirSync" -> "mkdir"
      [] op = "unlinkSync" -> "unlink"
      [] op = "rmdirSync" -> "rmdir"
      [] OTHER -> ""

\* C1 (as claimed): after any sequence of writeFileSync / mkdirSync / unlinkSync /
\* rmdirSync calls the entries are strictly ascending by relativePath
EntriesStrictlyAscending ==
    \A i \in 1..(Len(entries) - 1) :
        StrLess(heap[entries[i]].relativePath, heap[entries[i + 1]].relativePath)

\* C7 (as claimed): once stop() has been called, every later mutating call fails,
\* whatever was called in between
StopIsTerminal ==
    (stopCalled /\ call.op \in Mutators) => outcome.type # "returned"

\* C7 (amended): while the container is STOPPED every mutating call fails with the
\* stopped error, and only start() takes the container out of STOPPED
StoppedFailsUntilStart ==
    [][ _state = STOPPED =>
          /\ call'.op \in Mutators => outcome'.type = "Error"
          /\ _state' = STOPPED \/ call'.op = "start" ]_vars

\* C7 witness: a mutating call made after stop() has failed
StoppedFailsWitness ==
    /\ stopCalled
    /\ _state = STOPPED
    /\ call.op \in Mutators
    /\ outcome.type = "Error"

\* C8: a mutating call on a STOPPED container raises an error naming the operation,
\* leaves entries, the change log, the path -> index map and the lifecycle state
\* as they were, and makes no fs call
StoppedMutationChangesNothing ==
    [][ (_state = STOPPED /\ call'.op \in Mutators) =>
          /\ outcome' = [type |-> "Error", operation |-> OperationName(call'.op)]
          /\ UNCHANGED <<heap, entries, _changes, _relativePathToChange, _state>>
          /\ io' = <<>> ]_vars

\* C8 witness: writeFileSync has failed on a stopped container that holds entries
\* and recorded changes
StoppedMutationWitness ==
    /\ _state = STOPPED
    /\ call.op = "writeFileSync"
    /\ outcome = [type |-> "Error", operation |-> "writeFile"]
    /\ Len(entries) > 0
    /\ Len(_changes) > 0

\* C9 (as claimed): on a STARTED container, mkdirSync for a path with no entry (the
\* fs call succeeding) completes, records ('mkdir', path, entry) and leaves a
\* directory entry for the path in entries
MkdirCreatesDirectoryEntry ==
    [][ \A p \in CallPaths :
          ( /\ _state = STARTED
            /\ findByRelativePath(p).entry = 0
            /\ call'.op = "mkdirSync"
            /\ call'.path = p
            /\ outcome'.type # "IOError" )
          => /\ outcome'.type = "returned"
             /\ \E k \in 1..Len(_changes') :
                  /\ _changes'[k][1] = "mkdir"
                  /\ _changes'[k][2] = p
                  /\ heap'[_changes'[k][3]].relativePath = p
             /\ \E i \in 1..Len(entries') :
                  /\ heap'[entries'[i]].relativePath = p
                  /\ isDirectory(heap'[entries'[i]]) ]_vars

\* C10: the change log holds one record per path tracked since the last start(), in
\* the order the paths were first touched, each with the operation and entry of the
\* path's latest tracked mutation, and the path -> index map points at it
ChangeLogKeepsLatestPerPath ==
    /\ Len(_changes) = Len(touched)
    /\ \A k \in 1..Len(_changes) :
         _changes[k] = <<latest[touched[k]][1], touched[k], latest[touched[k]][2]>>
    /\ \A k, m \in 1..Len(_changes) : k # m => _changes[k][2] # _changes[m][2]
    /\ DOMAIN _relativePathToChange = { _changes[k][2] : k \in 1..Len(_changes) }
    /\ \A p \in DOMAIN _relativePathToChange :
         _changes[_relativePathToChange[p] + 1][2] = p

\* C10 witness: the last call re-touched the path of the first of two records with
\* another operation than the one that created the record
ChangeLogWitness ==
    /\ Len(_changes) = 2
    /\ call.op = "unlinkSync"
    /\ outcome.type = "returned"
    /\ _changes[1][2] = call.path
    /\ _changes[1][1] = "unlink"
    /\ heap[_changes[1][3]].mtime = Num(1)
    /\ _changes[2][1] = "rmdir"

\* C11: writeFileSync(path, content) on a STARTED container whose entry for path has
\* the digest of content as its checksum changes neither the change log nor the
\* entries (same Entry objects, same order, same fields) and writes no file
WriteOfSameContentIsNoOp ==
    [][ \A p \in CallPaths, content \in Contents :
          ( /\ _state = STARTED
            /\ findByRelativePath(p).entry # 0
            /\ heap[findByRelativePath(p).entry].checksum = md5hex(content)
            /\ writeFileSync(p, content) )
          => /\ UNCHANGED <<heap, entries, _changes, _relativePathToChange>>
             /\ outcome'.type = "returned"
             /\ io' = <<>> ]_vars

\* C11 witness: a writeFileSync of an existing path has returned without any fs
\* call, with changes recorded earlier still in the log
WriteOfSameContentWitness ==
    /\ _state = STARTED
    /\ call.op = "writeFileSync"
    /\ outcome.type = "returned"
    /\ io = <<>>
    /\ findByRelativePath(call.path).entry # 0
    /\ Len(_changes) > 0

\* C12 (as claimed): no container operation changes any field of an Entry that exists
EntriesAreImmutable ==
    [][ \A e \in 1..Len(heap) : heap'[e] = heap[e] ]_vars

\* C12 (amended): no container operation changes relativePath, mode, size or mtime
\* of an Entry that exists, nor a checksum that is set; only writeFileSync of the
\* entry's own path sets the checksum of an entry that has none
OnlyMissingChecksumIsSet ==
    [][ \A e \in 1..Len(heap) :
          /\ heap'[e].relativePath = heap[e].relativePath
          /\ heap'[e].mode = heap[e].mode
          /\ heap'[e].size = heap[e].size
          /\ heap'[e].mtime = heap[e].mtime
          /\ heap[e].checksum # NoChecksum => heap'[e].checksum = heap[e].checksum
          /\ heap'[e].checksum # heap[e].checksum =>
               /\ call'.op = "writeFileSync"
               /\ call'.path = heap[e].relativePath
               /\ "readFileSync" = io'[1] ]_vars

\* C12 witness: an entry the container was constructed with has got its checksum
\* from a writeFileSync that went on to replace it
OnlyMissingChecksumWitness ==
    /\ call.op = "writeFileSync"
    /\ outcome.type = "returned"
    /\ io = <<"readFileSync", "writeFileSync">>
    /\ \E e \in 1..Len(heap) :
         /\ heap[e].mtime = Num(ARBITRARY_START_OF_TIME)
         /\ heap[e].relativePath = call.path
         /\ heap[e].checksum = md5hex(<<120>>)

\* C15: no two entries share a relativePath, and findByRelativePath(path) gives the
\* one entry with that path and its index, or (null, -1) when there is none;
\* statSync returns that entry
LookupFindsTheUniqueEntry ==
    /\ \A i, j \in 1..Len(entries) :
         i # j => heap[entries[i]].relativePath # heap[entries[j]].relativePath
    /\ \A p \in Paths :
         LET result == findByRelativePath(p)
             at == { i \in 1..Len(entries) : heap[entries[i]].relativePath = p }
         IN  IF at = {}
             THEN result = [entry |-> 0, index |-> -1]
             ELSE /\ at = {result.index + 1}
                  /\ result.entry = entries[result.index + 1]
    /\ (call.op = "statSync" /\ call.path \in Paths) =>
         ret = findByRelativePath(call.path).entry

\* C15 witness: statSync has found an entry that a writeFileSync put in place of
\* another, in a container of several entries
LookupWitness ==
    /\ call.op = "statSync"
    /\ ret # 0
    /\ heap[ret].mtime = Num(1)
    /\ \E k \in 1..Len(_changes) : _changes[k][1] = "change" /\ _changes[k][3] = ret
    /\ Len(entries) > 1

\* C19: a successful unlinkSync(p) / rmdirSync(p) on a STARTED container, for a path
\* that has an entry, records an 'unlink' / 'rmdir' change for p with that entry and
\* leaves entries as it was: same size, and statSync(p) gives the same entry
RemovalKeepsTheEntry ==
    [][ \A p \in CallPaths :
          ( /\ _state = STARTED
            /\ findByRelativePath(p).entry # 0
            /\ call'.op \in {"unlinkSync", "rmdirSync"}
            /\ call'.path = p
            /\ outcome'.type = "returned" )
          => /\ entries' = entries
             /\ heap' = heap
             /\ Len(entries') = Len(entries)
             /\ findByRelativePath(p)' = findByRelativePath(p)
             /\ \E k \in 1..Len(_changes') :
                  _changes'[k] = << OperationName(call'.op), p,
                                    findByRelativePath(p).entry >> ]_vars

\* C19 witness: rmdirSync and unlinkSync have both returned and their paths still
\* have their entries
RemovalKeepsWitness ==
    /\ call.op = "unlinkSync"
    /\ outcome.type = "returned"
    /\ \E k, m \in 1..Len(_changes) :
         /\ _changes[k][1] = "rmdir"
         /\ _changes[m][1] = "unlink"
         /\ findByRelativePath(_changes[k][2]).entry = _changes[k][3]
         /\ findByRelativePath(_changes[m][2]).entry = _changes[m][3]

----------------------------------------------------------------------------
(* Further properties of the patch calculator *)

\* the entries of ours and theirs at a path both have
Common == { <<i, j>> \in (1..Len(ours)) \X (1..Len(theirs)) :
              ours[i].relativePath = theirs[j].relativePath }

CommandsAt(p) == { k \in 1..Len(patch) : patch[k][2] = p }

\* C13: with the default predicate, a path of both trees gets a 'change' command
\* iff its entries are not both directories and differ in size, numeric mtime or
\* mode, and it gets no command of another kind
ChangeIffMetadataDiffers ==
    (patchOutcome = "returned" /\ isEqualArg = "absent") =>
        \A c \in Common :
            LET x == ours[c[1]]
                y == theirs[c[2]]
                bothDirectories == isDirectory(x) /\ isDirectory(y)
                differ == \/ x.size # y.size
                          \/ x.mtime.ms # y.mtime.ms
                          \/ x.mode # y.mode
            IN  /\ (\E k \in CommandsAt(x.relativePath) : patch[k][1] = "change")
                      <=> (~bothDirectories /\ differ)
                /\ \A k \in CommandsAt(x.relativePath) : patch[k][1] = "change"

\* C13 witness: two directories that differ in size, mtime and mode get no command,
\* while a file next to them whose size differs gets a 'change'
ChangeIffWitness ==
    /\ patchOutcome = "returned"
    /\ isEqualArg = "absent"
    /\ \E c, d \in Common :
         /\ isDirectory(ours[c[1]]) /\ isDirectory(theirs[c[2]])
         /\ ours[c[1]].size # theirs[c[2]].size
         /\ ours[c[1]].mtime.ms # theirs[c[2]].mtime.ms
         /\ ours[c[1]].mode # theirs[c[2]].mode
         /\ isFile(ours[d[1]])
         /\ ours[d[1]].mtime # theirs[d[2]].mtime
         /\ ours[d[1]].mtime.ms = theirs[d[2]].mtime.ms
         /\ ours[d[1]].size # theirs[d[2]].size
    /\ Len(patch) = 1
    /\ patch[1][1] = "change"

\* C14: every mkdir command comes before every create or mkdir command whose path
\* has the mkdir's path as a proper prefix
MkdirBeforeDescendantAdds ==
    patchOutcome = "returned" =>
        \A d, k \in 1..Len(patch) :
            ( /\ patch[d][1] = "mkdir"
              /\ patch[k][1] \in {"create", "mkdir"}
              /\ IsProperPrefix(patch[d][2], patch[k][2]) ) => d < k

\* C14 witness: a directory made together with a directory and a file below it
MkdirBeforeWitness ==
    /\ patchOutcome = "returned"
    /\ \E d, k, m \in 1..Len(patch) :
         /\ patch[d][1] = "mkdir"
         /\ patch[k][1] = "mkdir"
         /\ patch[m][1] = "create"
         /\ IsProperPrefix(patch[d][2], patch[k][2])
         /\ IsProperPrefix(patch[k][2], patch[m][2])

\* C16: a second argument that is not a function makes calculatePatch throw a
\* TypeError with no command produced; without a second argument the default
\* predicate decides which common paths get a 'change'
NonFunctionPredicateThrows ==
    patchOutcome # "pending" =>
        /\ isEqualArg = "notAFunction" => (patchOutcome = "TypeError" /\ patch = <<>>)
        /\ isEqualArg = "absent" =>
             /\ patchOutcome = "returned"
             /\ \A c \in Common :
                  (CommandsAt(ours[c[1]].relativePath) # {})
                      <=> ~defaultIsEqual(ours[c[1]], theirs[c[2]])

\* C16 witness: the TypeError for two trees that differ
NonFunctionPredicateWitness ==
    /\ patchOutcome = "TypeError"
    /\ isEqualArg = "notAFunction"
    /\ Len(ours) > 0
    /\ Len(theirs) > 0
    /\ PathsOf(ours) # PathsOf(theirs)

IsUnlink(k) == patch[k][1] = "unlink"

\* a command for a directory that calculatePatch defers: rmdir, or change of a directory
IsDeferredDirectory(k) ==
    \/ patch[k][1] = "rmdir"
    \/ patch[k][1] = "change" /\ isDirectory(patch[k][3])

\* a command of the forward segment that is no removal
IsForwardAdd(k) ==
    \/ patch[k][1] \in {"create", "mkdir"}
    \/ patch[k][1] = "change" /\ isFile(patch[k][3])

\* the path is reached while theirs still has an entry: theirs has a greater path
BeforeTheirsEnd(k) ==
    \E j \in 1..Len(theirs) : StrLess(patch[k][2], theirs[j].relativePath)

\* C17 (as claimed): every unlink command is in the forward segment: unlinks are in
\* ascending path order and before every deferred directory command
UnlinksAreForward ==
    patchOutcome = "returned" =>
        \A k, m \in 1..Len(patch) :
            IsUnlink(k) =>
                /\ (IsUnlink(m) /\ StrLess(patch[k][2], patch[m][2])) => k < m
                /\ IsDeferredDirectory(m) => k < m

\* C17 (amended): an unlink of a path smaller than some path of theirs is in the
\* forward segment, in ascending order with the other such unlinks and before every
\* deferred command; an unlink of a path left over after theirs is exhausted is
\* deferred: after every add and file change, and after every removal or directory
\* change of a greater path
UnlinksForwardUntilTheirsEnds ==
    patchOutcome = "returned" =>
        \A k, m \in 1..Len(patch) :
            IsUnlink(k) =>
                IF BeforeTheirsEnd(k)
                THEN /\ ( /\ IsUnlink(m)
                          /\ BeforeTheirsEnd(m)
                          /\ StrLess(patch[k][2], patch[m][2]) ) => k < m
                     /\ IsDeferredDirectory(m) => k < m
                     /\ (IsUnlink(m) /\ ~BeforeTheirsEnd(m)) => k < m
                ELSE /\ IsForwardAdd(m) => m < k
                     /\ ( /\ IsUnlink(m) \/ IsDeferredDirectory(m)
                          /\ StrLess(patch[k][2], patch[m][2]) ) => m < k

\* C17 witness: one unlink in the forward segment, another after the rmdir of a
\* greater path
UnlinksForwardWitness ==
    /\ patchOutcome = "returned"
    /\ \E k, m, d \in 1..Len(patch) :
         /\ IsUnlink(k) /\ BeforeTheirsEnd(k)
         /\ IsUnlink(m) /\ ~BeforeTheirsEnd(m)
         /\ patch[d][1] = "rmdir"
         /\ k < d
         /\ d < m

\* C18: for any predicate, the deferred directory commands (rmdir, change of a
\* directory) are in strictly descending path order and after every create, mkdir
\* and file change
DeferredDirectoriesDescendLast ==
    patchOutcome = "returned" =>
        \A k, m \in 1..Len(patch) :
            IsDeferredDirectory(k) =>
                /\ (IsDeferredDirectory(m) /\ k < m) =>
                     StrLess(patch[m][2], patch[k][2])
                /\ IsForwardAdd(m) => m < k

\* C18 witness: under a predicate that reports directories unequal, a directory
\* change and an rmdir follow a create
DeferredDirectoriesWitness ==
    /\ patchOutcome = "returned"
    /\ isEqualArg = "strictIsEqual"
    /\ \E k, m, c \in 1..Len(patch) :
         /\ patch[k][1] = "rmdir"
         /\ patch[m][1] = "change" /\ isDirectory(patch[m][3])
         /\ patch[c][1] = "create"
         /\ StrLess(patch[m][2], patch[c][2])

\* the predicate calculatePatch was called with reports x and y equal
ReportsEqual(x, y) ==
    IF isEqualArg = "strictIsEqual" THEN strictIsEqual(x, y) ELSE defaultIsEqual(x, y)

\* C20: for any predicate the output has at most one command per path; paths of
\* ours alone get unlink / rmdir, paths of theirs alone create / mkdir, paths of both
\* get 'change' iff the predicate reports their entries unequal; no other path gets
\* a command, and the output is no longer than |ours| + |theirs|
OneCommandPerChangedPath ==
    patchOutcome = "returned" =>
        /\ \A k, m \in 1..Len(patch) : k # m => patch[k][2] # patch[m][2]
        /\ Len(patch) <= Len(ours) + Len(theirs)
        /\ \A k \in 1..Len(patch) : patch[k][2] \in PathsOf(ours) \cup PathsOf(theirs)
        /\ \A p \in PathsOf(ours) \ PathsOf(theirs) :
             \E k \in CommandsAt(p) : patch[k] = removeCommand(EntryAt(ours, p))
        /\ \A p \in PathsOf(theirs) \ PathsOf(ours) :
             \E k \in CommandsAt(p) : patch[k] = addCommand(EntryAt(theirs, p))
        /\ \A p \in PathsOf(ours) \cap PathsOf(theirs) :
             IF ReportsEqual(EntryAt(ours, p), EntryAt(theirs, p))
             THEN CommandsAt(p) = {}
             ELSE \E k \in CommandsAt(p) : patch[k] = <<"change", p, EntryAt(theirs, p)>>

\* C20 witness: a path of ours alone, a path of theirs alone, a common path reported
\* unequal and one reported equal
OneCommandWitness ==
    /\ patchOutcome = "returned"
    /\ isEqualArg = "strictIsEqual"
    /\ {"change", "rmdir", "create"} \subseteq Kinds(patch)
    /\ \E p \in PathsOf(ours) \cap PathsOf(theirs) : CommandsAt(p) = {}

====
